---------------------------- MODULE Spec2Model ----------------------------
(***************************************************************************)
(* A model of the everHome API client, src/src/everhome/everhome_client.py *)
(* (class EverHome): the stored token, one call of _internal_call from its *)
(* wrapper to its return or raise, the attempts the session makes on the   *)
(* wire under the urllib3.Retry built in _build_session, and set_auth,     *)
(* which another thread of the caller may run at any moment.               *)
(*                                                                         *)
(* Python values are records [t |-> type, v |-> value]; a dict is the      *)
(* sequence of its <<key, value>> pairs in insertion order; text is a TLA+ *)
(* string, cut and joined with SubSeq and \o.                              *)
(***************************************************************************)
EXTENDS Integers, Sequences, FiniteSets, TLC

(***************************************************************************)
(* Python values                                                           *)
(***************************************************************************)
PyNone == [t |-> "None", v |-> ""]

PyStr(s) == [t |-> "str", v |-> s]

PyInt(n) == [t |-> "int", v |-> n]

PyBool(b) == [t |-> "bool", v |-> b]

PyList(s) == [t |-> "list", v |-> s]

PyDict(s) == [t |-> "dict", v |-> s]

\* bool(x): the test `if payload:` and `response.text or None` make
Truthy(x) ==
    CASE x.t = "None" -> FALSE
      [] x.t = "bool" -> x.v
      [] x.t = "int"  -> x.v # 0
      [] x.t = "str"  -> x.v # ""
      [] x.t = "list" -> Len(x.v) > 0
      [] x.t = "dict" -> Len(x.v) > 0

Digit(d) == SubSeq("0123456789", d + 1, d + 1)

RECURSIVE IntStr(_)
IntStr(n) == IF n < 10 THEN Digit(n) ELSE IntStr(n \div 10) \o Digit(n % 10)

\* str(x), as "{0}".format(x) and "%s" % x render a None or a str
Str(x) ==
    CASE x.t = "None" -> "None"
      [] x.t = "str"  -> x.v
      [] x.t = "int"  -> IntStr(x.v)
      [] x.t = "bool" -> IF x.v THEN "True" ELSE "False"

\* key in d, for a dict given as its sequence of pairs
HasKey(d, k) == \E i \in 1..Len(d) : d[i][1] = k

\* d.get(k, default)
DictGet(d, k, default) ==
    IF HasKey(d, k) THEN d[CHOOSE i \in 1..Len(d) : d[i][1] = k][2] ELSE default

\* del d[k]
DictDel(d, k) == SelectSeq(d, LAMBDA p : p[1] # k)

\* d[k] = x: a present key keeps its place, a new key goes last
DictSet(d, k, x) ==
    IF HasKey(d, k)
    THEN [i \in 1..Len(d) |-> IF d[i][1] = k THEN <<k, x>> ELSE d[i]]
    ELSE Append(d, <<k, x>>)

\* d.update(e)
RECURSIVE DictUpdate(_, _)
DictUpdate(d, e) ==
    IF Len(e) = 0 THEN d
    ELSE DictUpdate(DictSet(d, e[1][1], e[1][2]), Tail(e))

(***************************************************************************)
(* json.dumps with its default separators, and response.json() as its      *)
(* inverse on the JSON documents the modelled server can send              *)
(***************************************************************************)
RECURSIVE JsonDumps(_), JsonItems(_), JsonPairs(_)
JsonDumps(x) ==
    CASE x.t = "None" -> "null"
      [] x.t = "bool" -> IF x.v THEN "true" ELSE "false"
      [] x.t = "int"  -> IntStr(x.v)
      [] x.t = "str"  -> "\"" \o x.v \o "\""
      [] x.t = "list" -> "[" \o JsonItems(x.v) \o "]"
      [] x.t = "dict" -> "{" \o JsonPairs(x.v) \o "}"

JsonItems(s) ==
    IF Len(s) = 0 THEN ""
    ELSE IF Len(s) = 1 THEN JsonDumps(s[1])
    ELSE JsonDumps(s[1]) \o ", " \o JsonItems(Tail(s))

JsonPairs(s) ==
    IF Len(s) = 0 THEN ""
    ELSE LET one == "\"" \o s[1][1] \o "\": " \o JsonDumps(s[1][2])
         IN  IF Len(s) = 1 THEN one ELSE one \o ", " \o JsonPairs(Tail(s))


JsonOk(x) == [ok |-> TRUE, v |-> x]

JsonFail == [ok |-> FALSE, v |-> PyNone]

\* the JSON documents the modelled server sends as response bodies
JsonDocuments ==
    { PyDict(<< <<"error", PyDict(<< <<"message", PyStr("not found")>>,
                                    <<"reason", PyStr("no_such_user")>> >>)>> >>),
      PyDict(<< <<"error", PyStr("bad")>> >>),
      PyDict(<< <<"id", PyInt(1)>> >>) }

\* response.json(): the document whose text this is, or ValueError (JsonFail)
ResponseJson(text) ==
    IF \E x \in JsonDocuments : JsonDumps(x) = text
    THEN JsonOk(CHOOSE x \in JsonDocuments : JsonDumps(x) = text)
    ELSE JsonFail

(***************************************************************************)
(* Text of URLs                                                            *)
(***************************************************************************)
\* s.startswith(p)
StartsWith(s, p) == Len(s) >= Len(p) /\ SubSeq(s, 1, Len(p)) = p

\* the first place at or after `from` where s holds the character c; 0 if none
IndexOf(s, c, from) ==
    IF \E i \in from..Len(s) : SubSeq(s, i, i) = c
    THEN CHOOSE i \in from..Len(s) :
             /\ SubSeq(s, i, i) = c
             /\ \A j \in from..(i - 1) : SubSeq(s, j, j) # c
    ELSE 0

\* the session has adapters for these two prefixes only
MountedPrefixes == {"http://", "https://"}

\* where the host of a URL the session has an adapter for begins
HostStart(url) == IF StartsWith(url, "https://") THEN 9 ELSE 8

\* what session.request accepts: a mounted prefix followed by a host. Any
\* other URL makes it raise MissingSchema, InvalidSchema or InvalidURL, each
\* a subclass of ValueError, before anything is sent.
UrlAccepted(url) ==
    /\ \E p \in MountedPrefixes : StartsWith(url, p)
    /\ Len(url) >= HostStart(url)
    /\ SubSeq(url, HostStart(url), HostStart(url)) # "/"

\* urlencode(params)
RECURSIVE UrlEncode(_)
UrlEncode(params) ==
    IF Len(params) = 0 THEN ""
    ELSE LET one == params[1][1] \o "=" \o params[1][2]
         IN  IF Len(params) = 1 THEN one
             ELSE one \o "&" \o UrlEncode(Tail(params))

Query(params) == IF Len(params) = 0 THEN "" ELSE "?" \o UrlEncode(params)

\* response.url: the URL requested, with its query
ResponseUrl(url, params) == url \o Query(params)

\* request.path_url: the path of the URL requested, with its query
PathUrl(url, params) ==
    LET slash == IndexOf(url, "/", HostStart(url))
    IN  (IF slash = 0 THEN "/" ELSE SubSeq(url, slash, Len(url))) \o Query(params)

(***************************************************************************)
(* The client's constants and the retry policy of _build_session           *)
(***************************************************************************)
\* self.prefix
prefix == "https://everhome.cloud/"

\* urllib3.Retry(total=3, ...): the retries one call may use
RetryTotal == 3

\* allowed_methods
AllowedMethods == {"GET", "POST", "PUT", "DELETE"}

\* status=(429, 500, 502, 503, 504): the list of statuses, handed to the
\* parameter that counts the retries allowed on a bad status
RetryStatusArg == {429, 500, 502, 503, 504}

\* status_forcelist=None: no status forces a retry
StatusForcelist == {}

\* read=False: a read failure is raised again instead of retried
RetryRead == FALSE

\* urllib3's RETRY_AFTER_STATUS_CODES: with respect_retry_after_header left
\* at its default, a response of one of these that carries Retry-After is
\* retried while total is not used up
RetryAfterStatusCodes == {413, 429, 503}

\* Retry.is_retry(method, status_code, has_retry_after), total being `left`
IsRetry(method, status, has_retry_after, left) ==
    /\ method \in AllowedMethods
    /\ \/ status \in StatusForcelist
       \/ left > 0 /\ has_retry_after /\ status \in RetryAfterStatusCodes

\* Retry.is_exhausted(), total being `left` (connect=None and read=False
\* set no count of their own)
IsExhausted(left) == left < 0

\* The bookkeeping of one retry reads the count given as status=, which here
\* is a tuple and no number: it either goes by total alone ("counted") or
\* fails on the tuple with a TypeError, as the urllib3 in use has it.
StatusCountOutcomes == {"counted", "TypeError"}

(***************************************************************************)
(* What _internal_call raises and returns                                  *)
(***************************************************************************)
\* EverHomeException(http_status, code, msg, reason=None, headers=None)
EverHomeException(http_status, code, msg, reason, headers) ==
    [type |-> "EverHomeException", http_status |-> http_status, code |-> code,
     msg |-> msg, reason |-> reason, headers |-> headers]

\* an exception of the HTTP library that _internal_call does not turn into
\* its own
LibraryError(type) ==
    [type |-> type, http_status |-> 0, code |-> 0, msg |-> "",
     reason |-> PyNone, headers |-> PyNone]

NoException == LibraryError("none")

\* "%s:\n %s" % (where, what)
Message(where, what) == where \o ":\n " \o what

\* the body of `except requests.exceptions.HTTPError`: the exception raised
\* for the error response r to the request of url with params
HTTPErrorRaised(r, url, params) ==
    LET json_response == ResponseJson(r.text)
    IN  IF ~json_response.ok
        THEN \* except ValueError
             EverHomeException(
                 r.status, -1,
                 Message(ResponseUrl(url, params),
                         Str(IF r.text # "" THEN PyStr(r.text) ELSE PyNone)),
                 PyNone, PyDict(r.headers))
        ELSE IF json_response.v.t # "dict"
        THEN \* json_response.get on a list, a str, a number or None
             LibraryError("AttributeError")
        ELSE LET error == DictGet(json_response.v.v, "error", PyDict(<<>>))
             IN  IF error.t # "dict"
                 THEN \* error.get on what is not a dict
                      LibraryError("AttributeError")
                 ELSE EverHomeException(
                          r.status, -1,
                          Message(ResponseUrl(url, params),
                                  Str(DictGet(error.v, "message", PyNone))),
                          DictGet(error.v, "reason", PyNone), PyDict(r.headers))

\* retry_error.args[0].reason, None on IndexError or AttributeError
RetryReason(retry_error) ==
    IF Len(retry_error.args) = 0 THEN PyNone
    ELSE IF ~retry_error.args[1].has_reason THEN PyNone
    ELSE retry_error.args[1].reason

\* the body of `except requests.exceptions.RetryError`
RetryErrorRaised(retry_error, url, params) ==
    EverHomeException(429, -1, Message(PathUrl(url, params), "Max Retries"),
                      RetryReason(retry_error), PyNone)

\* response.raise_for_status() raises HTTPError
IsErrorStatus(status) == 400 <= status /\ status < 600

Returned(x) == [pc |-> "returned", results |-> x, exc |-> NoException]

Raised(e) == [pc |-> "raised", results |-> PyNone, exc |-> e]

\* ResponseResults with the ValueError of response.json() left uncaught
ResponseResults_raising(r) ==
    LET body == ResponseJson(r.text)
    IN  IF body.ok THEN Returned(body.v)
        ELSE Raised(LibraryError("JSONDecodeError"))

\* lines 95 and 136-140: the response r passed raise_for_status
ResponseResults(r) ==
    LET body == ResponseJson(r.text)
    IN  IF body.ok THEN Returned(body.v)
        ELSE \* except ValueError
             Returned(PyNone)

\* Lines 88-140 from what session.request gave: a response, or an exception
\* of the given type. How the call of url with params ends.
InternalCallEnd(outcome, url, params) ==
    CASE outcome.kind = "response" ->
             IF IsErrorStatus(outcome.response.status)
             THEN Raised(HTTPErrorRaised(outcome.response, url, params))
             ELSE ResponseResults(outcome.response)
      [] outcome.kind = "RetryError" ->
             Raised(RetryErrorRaised(outcome.error, url, params))
      [] outcome.kind = "ValueError" -> Returned(PyNone)
      [] OTHER -> Raised(LibraryError(outcome.kind))

(***************************************************************************)
(* What the callers pass and what the network answers                      *)
(***************************************************************************)
\* tokens: None (the constructor's default), "123" (tests/test_methods.py)
Auths == {PyNone, PyStr("123")}

Urls ==
    { "devices", "https://everhome.cloud/devices", "httpdocs/1",
      "ftp://files.example/x" }

Payloads ==
    { PyNone, PyDict(<<>>), PyDict(<< <<"on", PyBool(TRUE)>> >>), PyInt(0),
      PyStr("raw") }

\* the wrappers' args (None is passed as the empty mapping: `if args:`
\* skips both) and keyword parameters
ArgsIn == { <<>>, << <<"content_type", "text/plain">> >> }

KwargsIn == { <<>>, << <<"page", "1">> >> }

Statuses == {200, 404, 429, 500}

Texts == {"", "internal error"} \cup {JsonDumps(x) : x \in JsonDocuments}

HeadersIn == { <<>>, << <<"Retry-After", "1">> >> }

Responses == [status : Statuses, text : Texts, headers : HeadersIn]

NoResponse == [status |-> 0, text |-> "", headers |-> <<>>]

\* no `data` key in args
Absent == [t |-> "absent", v |-> ""]

NoRequest ==
    [method |-> "", url |-> "", headers |-> <<>>, params |-> <<>>,
     data |-> Absent]

NoCall == [method |-> "", url |-> "", payload |-> PyNone, params |-> <<>>]

\* the MaxRetryError a RetryError wraps, as requests' adapter builds it
RetryErrorOf(status) ==
    [args |-> << [has_reason |-> TRUE,
                  reason |-> [t |-> "ResponseError", v |-> IntStr(status)]] >>]

NoError == [args |-> <<>>]

Outcome(kind, response, error) ==
    [kind |-> kind, response |-> response, error |-> error]

(***************************************************************************)
(* State                                                                   *)
(***************************************************************************)
VARIABLES
    _auth,      \* self._auth
    pc,         \* "idle", "sending" (in session.request), "returned", "raised"
    op,         \* the public or wrapper method running
    call,       \* the arguments of _internal_call
    url,        \* its local url, resolved
    headers,    \* its local headers
    args,       \* its local args: params, and data or Absent
    retries,    \* the total left in the call's Retry
    attempts,   \* how often the request went onto the wire
    sent,       \* the request as it last went onto the wire
    response,   \* the response session.request returned
    results,    \* what _internal_call returned
    exc,        \* what it raised
    ret         \* what the public method returned

vars ==
    << _auth, pc, op, call, url, headers, args, retries, attempts, sent,
       response, results, exc, ret >>

callVars == << op, call, url, headers, args >>

Init ==
    /\ _auth \in Auths
    /\ pc = "idle"
    /\ op = "none"
    /\ call = NoCall
    /\ url = ""
    /\ headers = <<>>
    /\ args = [params |-> <<>>, data |-> Absent]
    /\ retries = RetryTotal
    /\ attempts = 0
    /\ sent = NoRequest
    /\ response = NoResponse
    /\ results = PyNone
    /\ exc = NoException
    /\ ret = PyNone

(***************************************************************************)
(* set_auth                                                                *)
(***************************************************************************)
SetAuth(auth) ==
    /\ _auth' = auth
    /\ UNCHANGED << pc, op, call, url, headers, args, retries, attempts, sent,
                    response, results, exc, ret >>

(***************************************************************************)
(* _internal_call up to session.request (lines 70-86)                      *)
(***************************************************************************)
\* lines 71-72
ResolveUrl(u) == IF ~StartsWith(u, "http") THEN prefix \o u ELSE u

\* _auth_headers
AuthHeaders(auth) == << <<"Authorization", "Bearer " \o Str(auth)>> >>

\* lines 75-83: the headers
BuildHeaders(auth, params) ==
    IF HasKey(params, "content_type")
    THEN DictSet(AuthHeaders(auth), "Content-Type",
                 DictGet(params, "content_type", ""))
    ELSE DictSet(AuthHeaders(auth), "Content-Type", "application/json")

\* BuildArgs without the `del` of line 77
BuildArgs_keeping(payload, params) ==
    IF HasKey(params, "content_type")
    THEN [params |-> params,
          data |-> IF Truthy(payload) THEN payload ELSE Absent]
    ELSE [params |-> params,
          data |-> IF Truthy(payload) THEN PyStr(JsonDumps(payload))
                   ELSE Absent]

\* lines 70, 75-83: args
BuildArgs(payload, params) ==
    IF HasKey(params, "content_type")
    THEN [params |-> DictDel(params, "content_type"),
          data |-> IF Truthy(payload) THEN payload ELSE Absent]
    ELSE [params |-> params,
          data |-> IF Truthy(payload) THEN PyStr(JsonDumps(payload))
                   ELSE Absent]

InternalCall(name, method, u, payload, params) ==
    /\ pc = "idle"
    /\ pc' = "sending"
    /\ op' = name
    /\ call' = [method |-> method, url |-> u, payload |-> payload,
                params |-> params]
    /\ url' = ResolveUrl(u)
    /\ headers' = BuildHeaders(_auth, params)
    /\ args' = BuildArgs(payload, params)
    /\ retries' = RetryTotal
    /\ attempts' = 0
    /\ sent' = NoRequest
    /\ response' = NoResponse
    /\ results' = PyNone
    /\ exc' = NoException
    /\ ret' = PyNone
    /\ UNCHANGED _auth

(***************************************************************************)
(* The wrappers and the public methods                                     *)
(***************************************************************************)
Get(u, a, payload, kwargs) ==
    InternalCall("_get", "GET", u, payload, DictUpdate(kwargs, a))

Post(u, a, payload, kwargs) ==
    InternalCall("_post", "POST", u, payload, DictUpdate(kwargs, a))

Delete(u, a, payload, kwargs) ==
    InternalCall("_delete", "DELETE", u, payload, DictUpdate(kwargs, a))

Put(u, a, payload, kwargs) ==
    InternalCall("_put", "PUT", u, payload, DictUpdate(kwargs, a))

User == InternalCall("user", "GET", "user/current", PyNone, <<>>)

Test == InternalCall("test", "GET", "devices", PyNone, <<>>)

(***************************************************************************)
(* session.request (lines 89-92) and the rest of _internal_call            *)
(***************************************************************************)
\* Request with the headers built anew from the token stored when it is sent
Request_rereading ==
    [method |-> call.method, url |-> url,
     headers |-> BuildHeaders(_auth, call.params),
     params |-> args.params, data |-> args.data]

\* the request as the session sends it
Request ==
    [method |-> call.method, url |-> url, headers |-> headers,
     params |-> args.params, data |-> args.data]

\* _internal_call ends, and with it the wrapper and the public method:
\* test() returns 42, the others what _internal_call returned
End(outcome) ==
    LET e == InternalCallEnd(outcome, url, args.params)
    IN  /\ pc' = e.pc
        /\ results' = e.results
        /\ exc' = e.exc
        /\ ret' = IF e.pc = "returned" /\ op = "test" THEN PyInt(42)
                  ELSE e.results

\* the session goes on to the next attempt
Again == UNCHANGED << pc, results, exc, ret >>

\* Retry.increment: one retry is used; the call goes on, or ends with
\* `exhausted` when none is left, or with the TypeError of the bookkeeping
Increment(exhausted) ==
    \E how \in StatusCountOutcomes :
        IF how = "TypeError"
        THEN /\ End(Outcome("TypeError", NoResponse, NoError))
             /\ UNCHANGED retries
        ELSE /\ retries' = retries - 1
             /\ IF IsExhausted(retries - 1) THEN End(exhausted) ELSE Again

\* session.request refuses the URL before anything is sent
SendRejected ==
    /\ pc = "sending"
    /\ ~UrlAccepted(url)
    /\ End(Outcome("ValueError", NoResponse, NoError))
    /\ UNCHANGED << _auth, callVars, retries, attempts, sent, response >>

\* the request goes out and the response r comes back: the session retries,
\* or returns r to _internal_call
ReceiveResponse(r) ==
    /\ pc = "sending"
    /\ UrlAccepted(url)
    /\ attempts' = attempts + 1
    /\ sent' = Request
    /\ IF IsRetry(call.method, r.status, HasKey(r.headers, "Retry-After"),
                  retries)
       THEN /\ Increment(Outcome("RetryError", r, RetryErrorOf(r.status)))
            /\ UNCHANGED response
       ELSE /\ End(Outcome("response", r, NoError))
            /\ response' = r
            /\ UNCHANGED retries
    /\ UNCHANGED << _auth, callVars >>

\* the connection cannot be made: retried while retries are left, then
\* requests raises ConnectionError
ConnectFailure ==
    /\ pc = "sending"
    /\ UrlAccepted(url)
    /\ attempts' = attempts + 1
    /\ Increment(Outcome("ConnectionError", NoResponse, NoError))
    /\ UNCHANGED << _auth, callVars, sent, response >>

\* the request goes out and no response is read within requests_timeout
ReadFailure ==
    /\ pc = "sending"
    /\ UrlAccepted(url)
    /\ attempts' = attempts + 1
    /\ sent' = Request
    /\ IF RetryRead
       THEN Increment(Outcome("ReadTimeout", NoResponse, NoError))
       ELSE /\ End(Outcome("ReadTimeout", NoResponse, NoError))
            /\ UNCHANGED retries
    /\ UNCHANGED << _auth, callVars, response >>

\* the caller has the result or the exception: the call's locals are gone
\* and the client is free again
Done ==
    /\ pc \in {"returned", "raised"}
    /\ pc' = "idle"
    /\ op' = "none"
    /\ call' = NoCall
    /\ url' = ""
    /\ headers' = <<>>
    /\ args' = [params |-> <<>>, data |-> Absent]
    /\ retries' = RetryTotal
    /\ attempts' = 0
    /\ sent' = NoRequest
    /\ response' = NoResponse
    /\ results' = PyNone
    /\ exc' = NoException
    /\ ret' = PyNone
    /\ UNCHANGED _auth

Next ==
    \/ \E auth \in Auths : SetAuth(auth)
    \/ User
    \/ Test
    \/ \E u \in Urls, a \in ArgsIn, payload \in Payloads, kwargs \in KwargsIn :
           Get(u, a, payload, kwargs)
    \/ \E u \in Urls, a \in ArgsIn, payload \in Payloads, kwargs \in KwargsIn :
           Post(u, a, payload, kwargs)
    \/ \E u \in Urls, a \in ArgsIn, payload \in Payloads, kwargs \in KwargsIn :
           Put(u, a, payload, kwargs)
    \/ \E u \in Urls, a \in ArgsIn, payload \in Payloads, kwargs \in KwargsIn :
           Delete(u, a, payload, kwargs)
    \/ SendRejected
    \/ ReadFailure
    \/ ConnectFailure
    \/ \E r \in Responses : ReceiveResponse(r)
    \/ Done

Spec == Init /\ [][Next]_vars

(***************************************************************************)
(* Properties                                                              *)
(***************************************************************************)
\* _internal_call has ended and its caller has not yet taken the outcome
Ended == pc \in {"returned", "raised"}

\* session.request returned a response to _internal_call
Delivered == Ended /\ response # NoResponse

\* s holds sub somewhere
Contains(s, sub) ==
    \E i \in 1..(Len(s) - Len(sub) + 1) : SubSeq(s, i, i + Len(sub) - 1) = sub

\* text is one of the JSON documents
IsJsonText(text) == \E x \in JsonDocuments : JsonDumps(x) = text

JsonValue(text) == CHOOSE x \in JsonDocuments : JsonDumps(x) = text

\* the body requests makes of a data argument: none of one that is missing
\* or falsy (prepare_body tests `if data:`)
BodyOf(data) ==
    IF data = Absent THEN PyNone
    ELSE IF Truthy(data) THEN data ELSE PyNone

\* c may stand in a URL scheme (RFC 3986), letters in lower case
IsSchemeChar(c) == IndexOf("abcdefghijklmnopqrstuvwxyz0123456789+-.", c, 1) # 0

IsLetter(c) == IndexOf("abcdefghijklmnopqrstuvwxyz", c, 1) # 0

\* u starts with a URL scheme: a letter, scheme characters, a colon
HasScheme(u) ==
    LET colon == IndexOf(u, ":", 1)
    IN  /\ colon > 1
        /\ IsLetter(SubSeq(u, 1, 1))
        /\ \A i \in 1..(colon - 1) : IsSchemeChar(SubSeq(u, i, i))

\* C1: whenever a call ends by raising, what it raises is an
\* EverHomeException and no exception of another type.
C1_SingleErrorKind == pc = "raised" => exc.type = "EverHomeException"

\* C2: the Authorization header a call builds is "Bearer " followed by the
\* token stored at that moment; every request of the call goes out with the
\* headers the call built; and while the call runs, a set_auth or any other
\* step changes neither these headers nor those of the request already sent.
C2_AuthorizationHeader ==
    [][ /\ (pc = "idle" /\ pc' = "sending")
            => DictGet(headers', "Authorization", "") = "Bearer " \o Str(_auth)
        /\ (pc' # "idle" /\ sent' # NoRequest) => sent'.headers = headers'
        /\ (pc # "idle" /\ pc' # "idle") => headers' = headers
      ]_vars

\* C2, its case: a request went out with the token of its call, and the
\* stored token was replaced afterwards
C2_Witness ==
    /\ sent # NoRequest
    /\ DictGet(sent.headers, "Authorization", "") = "Bearer 123"
    /\ _auth = PyNone

\* C3: the URL of a call is the base URL followed by the input when the
\* input is relative, and the input itself when it starts with a URL scheme.
C3_UrlResolution ==
    pc # "idle" =>
        url = IF HasScheme(call.url) THEN call.url
              ELSE "https://everhome.cloud/" \o call.url

\* C4: a request without a content_type parameter goes out with Content-Type
\* application/json and, for every payload the caller gave, with the JSON
\* serialization of the payload as its body.
C4_JsonBody ==
    (sent # NoRequest /\ ~HasKey(call.params, "content_type")) =>
        /\ DictGet(sent.headers, "Content-Type", "") = "application/json"
        /\ call.payload # PyNone
               => BodyOf(sent.data) = PyStr(JsonDumps(call.payload))

\* C5: a request with a content_type parameter goes out with that value as
\* its Content-Type, without content_type among its query parameters, with
\* every other parameter as given, and with the payload itself as its body.
C5_ContentTypeOverride ==
    (sent # NoRequest /\ HasKey(call.params, "content_type")) =>
        /\ DictGet(sent.headers, "Content-Type", "")
               = DictGet(call.params, "content_type", "")
        /\ ~HasKey(sent.params, "content_type")
        /\ \A i \in 1..Len(call.params) :
               call.params[i][1] # "content_type"
                   => /\ HasKey(sent.params, call.params[i][1])
                      /\ DictGet(sent.params, call.params[i][1], "")
                             = call.params[i][2]
        /\ \A i \in 1..Len(sent.params) : HasKey(call.params, sent.params[i][1])
        /\ BodyOf(sent.data) = BodyOf(call.payload)

\* C5, its case: a raw payload went out beside another parameter
C5_Witness ==
    /\ sent # NoRequest
    /\ HasKey(call.params, "content_type")
    /\ HasKey(call.params, "page")
    /\ call.payload = PyStr("raw")

\* C6: a call that was returned a response of an error status raises an
\* EverHomeException with the response's status, code -1 and the response's
\* headers; its message holds error.message and its reason is error.reason
\* when the body is JSON, and otherwise its message holds the text of the
\* body, or None for an empty text, and its reason is None.
C6_ErrorTranslation ==
    (Delivered /\ IsErrorStatus(response.status)) =>
        /\ pc = "raised"
        /\ exc.type = "EverHomeException"
        /\ exc.http_status = response.status
        /\ exc.code = -1
        /\ exc.headers = PyDict(response.headers)
        /\ IF IsJsonText(response.text)
           THEN LET error == DictGet(JsonValue(response.text).v, "error",
                                     PyDict(<<>>))
                IN  error.t = "dict" =>
                        /\ Contains(exc.msg,
                                    Str(DictGet(error.v, "message", PyNone)))
                        /\ exc.reason = DictGet(error.v, "reason", PyNone)
           ELSE /\ Contains(exc.msg, IF response.text = "" THEN "None"
                                     ELSE response.text)
                /\ exc.reason = PyNone

C8_SuccessBody ==
    (Delivered /\ ~IsErrorStatus(response.status)) =>
        /\ pc = "returned"
        /\ exc = NoException
        /\ results = IF IsJsonText(response.text) THEN JsonValue(response.text)
                     ELSE PyNone

\* C8, its case: a 200 whose body is no JSON was returned as None
C8_Witness ==
    /\ pc = "returned"
    /\ response.status = 200
    /\ response.text = "internal error"
    /\ results = PyNone

\* C9: a call does not end on a response of status 429, 500, 502, 503 or 504
\* nor on a connection failure before the first attempt and 3 more are made.
C9_RetryPolicy ==
    (Ended /\ (\/ exc.type = "ConnectionError"
               \/ (Delivered /\ response.status \in {429, 500, 502, 503, 504})))
        => attempts = 1 + 3

\* C10: a call returns None only when it was returned a response of a status
\* that is no error whose body is not JSON.
C10_NoSilentNone ==
    (pc = "returned" /\ results = PyNone) =>
        /\ Delivered
        /\ ~IsErrorStatus(response.status)
        /\ ~IsJsonText(response.text)

=============================================================================
